---------------------------- MODULE Spec2Model ----------------------------
(***************************************************************************)
(* Model of the umamusume-tracker service (src/main.py): the refresh       *)
(* cache (events_cache, _refresh_lock, _refresh_in_progress), the refresh  *)
(* pipeline fetch_gametora_data with its five sources, and the reader      *)
(* get_events.                                                             *)
(*                                                                         *)
(* Conventions.                                                            *)
(*  - An instant is a number of hours since 1 Jan 2024 00:00 (calendar     *)
(*    months are 31 days long in the model); 0 stands for None / a falsy   *)
(*    timestamp, exactly as `if start_ts` treats both in the code.         *)
(*  - A title is a sequence of one-character strings, so that strip() and  *)
(*    lower() are computed, not assumed.                                   *)
(*  - An item is [title, sort, src]: sort is the value of the item's       *)
(*    "_sort" helper key (popped before publication in the code, kept here *)
(*    to state ordering), src names the source that produced the record.   *)
(***************************************************************************)
EXTENDS Integers, Sequences, FiniteSets, TLC

(***************************************************************************)
(* Generic sequence helpers                                                *)
(***************************************************************************)
Range(s) == {s[i] : i \in 1..Len(s)}

Take(s, n) == SubSeq(s, 1, IF Len(s) < n THEN Len(s) ELSE n)

RECURSIVE FlatMap(_, _)
FlatMap(Op(_), s) ==
    IF s = <<>> THEN <<>> ELSE Op(Head(s)) \o FlatMap(Op, Tail(s))

\* list.sort(key=lambda x: x.get('_sort') or 0): Python's sort is stable.
RECURSIVE InsertBySort(_, _)
InsertBySort(it, s) ==
    IF s = <<>> THEN <<it>>
    ELSE IF Head(s).sort <= it.sort THEN <<Head(s)>> \o InsertBySort(it, Tail(s))
    ELSE <<it>> \o s

RECURSIVE SortBySortKey(_)
SortBySortKey(s) ==
    IF s = <<>> THEN <<>>
    ELSE InsertBySort(s[Len(s)], SortBySortKey(SubSeq(s, 1, Len(s) - 1)))

(***************************************************************************)
(* Titles: str.strip() and str.lower() over the model's alphabet           *)
(***************************************************************************)
Lower(c) ==
    IF c = "A" THEN "a" ELSE IF c = "B" THEN "b" ELSE IF c = "C" THEN "c"
    ELSE IF c = "S" THEN "s" ELSE IF c = "Z" THEN "z" ELSE c

LowerStr(s) == [i \in 1..Len(s) |-> Lower(s[i])]

RECURSIVE LStrip(_)
LStrip(s) == IF s # <<>> /\ Head(s) = " " THEN LStrip(Tail(s)) ELSE s

RECURSIVE RStrip(_)
RStrip(s) ==
    IF s # <<>> /\ s[Len(s)] = " " THEN RStrip(SubSeq(s, 1, Len(s) - 1)) ELSE s

Strip(s) == RStrip(LStrip(s))

\* The dedup key of lines 372, 779, 892 and 894: (title or "").strip().lower()
TitleKey(t) == LowerStr(Strip(t))

\* De-dupe by title, first occurrence wins, stop at limit (lines 368-380, 775-785)
RECURSIVE DedupeByTitle(_, _, _)
DedupeByTitle(rows, seen, limit) ==
    IF rows = <<>> \/ limit <= 0 THEN <<>>
    ELSE LET key == TitleKey(Head(rows).title) IN
         IF key = <<>> \/ key \in seen
         THEN DedupeByTitle(Tail(rows), seen, limit)
         ELSE <<Head(rows)>> \o DedupeByTitle(Tail(rows), seen \cup {key}, limit - 1)

(***************************************************************************)
(* Dates: datetime.strptime and _parse_game8_utc_date_range                *)
(***************************************************************************)
\* Month number accepted by strptime's %b (abbreviated names); 0 = no match
MonthShort(tok) ==
    IF tok = "Jan" THEN 1 ELSE IF tok = "Feb" THEN 2 ELSE IF tok = "Dec" THEN 12 ELSE 0

\* Month number accepted by strptime's %B (full names); 0 = no match
MonthLong(tok) ==
    IF tok = "January" THEN 1 ELSE IF tok = "February" THEN 2
    ELSE IF tok = "December" THEN 12 ELSE 0

DaysInMonth(m) == IF m = 2 THEN 28 ELSE 31

\* Hours since 1 Jan 2024 of midnight of the calendar day y-m-d
Timestamp(y, m, d) == (((y - 2024) * 12 + (m - 1)) * 31 + (d - 1)) * 24

\* datetime.strptime(f"{tok} {d} {y}", fmt): the instant, or -1 for ValueError
Strptime(tok, d, y, fmt) ==
    LET m == IF fmt = "%b" THEN MonthShort(tok) ELSE MonthLong(tok) IN
    IF m = 0 \/ d < 1 \/ d > DaysInMonth(m) THEN -1 ELSE Timestamp(y, m, d)

\* try: strptime(.., first) except ValueError: strptime(.., second)
\* -1 when the second attempt raises too: that ValueError leaves the handler.
StrptimeEither(tok, d, y, first, second) ==
    LET a == Strptime(tok, d, y, first) IN
    IF a # -1 THEN a ELSE Strptime(tok, d, y, second)

ApproxDay(when) == IF when = "Early" THEN 5 ELSE IF when = "Mid" THEN 15 ELSE 25

NoDate == [raised |-> FALSE, start |-> 0, end |-> 0]

\* An availability text is given by the pattern it matches and the groups
\* the pattern captures:
\*   form "empty"  : the empty string
\*   form "approx" : ^(Early|Mid|Late) ([A-Za-z]+) (\d{4})$   when, m1, y1
\*   form "range1" : ^Mon D - Mon D, YYYY$                    m1 d1 m2 d2 y2
\*   form "range2" : ^Mon D, YYYY - Mon D, YYYY$              m1 d1 y1 m2 d2 y2
\*   form "other"  : no pattern matches; marker says whether the text holds
\*                   "Early ", "Mid " or "Late ", yeartok whether it holds a
\*                   20xx token.
\* Returns [raised, start, end]; start/end 0 stand for None.
ParseGame8DateRange(text) ==
    IF text.form = "approx" THEN
        LET ts == StrptimeEither(text.m1, ApproxDay(text.when), text.y1, "%B", "%b") IN
        IF ts = -1 THEN [raised |-> TRUE, start |-> 0, end |-> 0]
        ELSE [raised |-> FALSE, start |-> ts, end |-> 0]
    ELSE IF text.form = "range1" THEN
        LET s == StrptimeEither(text.m1, text.d1, text.y2, "%b", "%B")
            e == StrptimeEither(text.m2, text.d2, text.y2, "%b", "%B") IN
        IF s = -1 \/ e = -1 THEN [raised |-> TRUE, start |-> 0, end |-> 0]
        ELSE [raised |-> FALSE, start |-> s, end |-> e]
    ELSE IF text.form = "range2" THEN
        LET s == StrptimeEither(text.m1, text.d1, text.y1, "%b", "%B")
            e == StrptimeEither(text.m2, text.d2, text.y2, "%b", "%B") IN
        IF s = -1 \/ e = -1 THEN [raised |-> TRUE, start |-> 0, end |-> 0]
        ELSE [raised |-> FALSE, start |-> s, end |-> e]
    ELSE NoDate


(***************************************************************************)
(* Program constants                                                       *)
(***************************************************************************)
\* limit=5 of fetch_story_events and fetch_game8_upcoming_banners, and the
\* literal 5 of the merge in fetch_gametora_data
Limit == 5

\* limit_banners=10, limit_events=10 passed to fetch_uma_moe_upcoming
UmaLimit == 10

\* now_ts + 10**9: the synthetic sort instant of an undated record, in hours
FarFuture(now) == now + 277777

(***************************************************************************)
(* fetch_story_events: the story-event list source                         *)
(* input: [ok, rows]: ok = FALSE when the list request raised; rows are the *)
(*   event pages [ok, title, start, end], ok = FALSE when the page request *)
(*   or its parsing raised (except Exception: continue).                   *)
(***************************************************************************)
\* As StoryBucket, for a classification that forgets to test the end instant
StoryBucketNoEnd(start, end, now) ==
    IF start # 0 /\ start <= now THEN "current"
    ELSE IF start # 0 /\ start > now THEN "upcoming"
    ELSE "dropped"

\* The classification of one event page (lines 163-170)
StoryBucket(start, end, now) ==
    IF start # 0 /\ end # 0 /\ start <= now /\ now <= end THEN "current"
    ELSE IF start # 0 /\ start > now THEN "upcoming"
    ELSE "dropped"

StoryItem(page, now) ==
    LET b == StoryBucket(page.start, page.end, now) IN
    [title |-> page.title,
     sort  |-> IF b = "current" THEN page.end ELSE page.start,
     src   |-> "story"]

FetchStoryEvents(input, now, limit) ==
    IF ~input.ok THEN [current |-> <<>>, upcoming |-> <<>>]
    ELSE
      LET Cur(p) == IF p.ok /\ StoryBucket(p.start, p.end, now) = "current"
                    THEN <<StoryItem(p, now)>> ELSE <<>>
          Upc(p) == IF p.ok /\ StoryBucket(p.start, p.end, now) = "upcoming"
                    THEN <<StoryItem(p, now)>> ELSE <<>>
      IN [current  |-> Take(SortBySortKey(FlatMap(Cur, input.rows)), limit),
          upcoming |-> Take(SortBySortKey(FlatMap(Upc, input.rows)), limit)]

(***************************************************************************)
(* fetch_game8_upcoming_banners: the range-table source                    *)
(* input: [ok, rows]: ok = FALSE when the request raised; rows are the     *)
(*   table rows in document order,                                         *)
(*   [title, avail, table]: table 1 is the exact-range table, table 2 the  *)
(*   "Expected Banner Schedule" the code falls back to.                    *)
(***************************************************************************)
\* A row is skipped before its date is parsed (lines 320-323)
Game8Skipped(row) == Strip(row.title) = <<>> \/ row.avail.form = "empty"

\* _parse_game8_utc_date_range is called outside any try: a ValueError of
\* one row leaves fetch_game8_upcoming_banners.
Game8Raises(input) ==
    /\ input.ok
    /\ \E i \in 1..Len(input.rows) :
          /\ ~Game8Skipped(input.rows[i])
          /\ ParseGame8DateRange(input.rows[i].avail).raised

\* As Game8SortTs, for a source that also returns the ranges that have begun
Game8SortTsKeepBegun(row, now) ==
    LET p == ParseGame8DateRange(row.avail) IN
    IF p.start # 0 THEN p.start
    ELSE IF row.avail.form = "other" /\ (row.avail.marker \/ row.avail.yeartok)
    THEN FarFuture(now)
    ELSE 0

\* is_upcoming and sort_ts of one row (lines 329-349); sort 0 = not upcoming
Game8SortTs(row, now) ==
    LET p == ParseGame8DateRange(row.avail) IN
    IF p.start # 0 /\ p.start > now THEN p.start
    ELSE IF p.start # 0 /\ p.end # 0 /\ p.start <= now /\ now <= p.end THEN 0
    ELSE IF p.start # 0 /\ p.end # 0 /\ now > p.end THEN 0
    ELSE IF p.start = 0 /\ row.avail.form = "other" /\ row.avail.marker THEN FarFuture(now)
    ELSE IF p.start = 0 /\ row.avail.form = "other" /\ row.avail.yeartok THEN FarFuture(now)
    ELSE 0

Game8Rows(input, now) ==
    LET Row(r) == IF ~Game8Skipped(r) /\ Game8SortTs(r, now) # 0
                  THEN <<[title |-> Strip(r.title), sort |-> Game8SortTs(r, now),
                          src |-> IF r.table = 1 THEN "game8:1" ELSE "game8:2"]>>
                  ELSE <<>>
    IN FlatMap(Row, input.rows)

\* The list returned when no row raises
FetchGame8UpcomingBanners(input, now, limit) ==
    IF ~input.ok THEN <<>>
    ELSE DedupeByTitle(SortBySortKey(Game8Rows(input, now)), {}, limit)

(***************************************************************************)
(* The primary gacha page (lines 814-871)                                  *)
(* input: [ok, char, support]: ok = FALSE when the request or the parsing  *)
(*   raised; char and support are sequences of banners [id, end, names],   *)
(*   names being the pickup card names found.                              *)
(***************************************************************************)
RECURSIVE Uniq(_, _)
Uniq(names, seen) ==
    IF names = <<>> THEN <<>>
    ELSE IF Head(names) \in seen THEN Uniq(Tail(names), seen)
    ELSE <<Head(names)>> \o Uniq(Tail(names), seen \cup {Head(names)})

\* title = kind, or f"{kind} — {' / '.join(names[:2])}"
BannerTitle(kind, names) ==
    LET u == Take(Uniq(names, {}), 2) IN
    IF u = <<>> THEN <<kind>>
    ELSE IF Len(u) = 1 THEN <<kind, " ", "-", " ", u[1]>>
    ELSE <<kind, " ", "-", " ", u[1], " ", "/", " ", u[2]>>

AddBanners(banners, kind) ==
    LET One(b) == IF b.id # 0
                  THEN <<[title |-> BannerTitle(kind, b.names), sort |-> b.end,
                          src |-> "gacha"]>>
                  ELSE <<>>
    IN FlatMap(One, banners)

\* new_data["banners"] after the gacha block: appended in page order
CurrentBanners(input) ==
    IF ~input.ok THEN <<>>
    ELSE AddBanners(input.char, "C") \o AddBanners(input.support, "S")

(***************************************************************************)
(* The primary home page: "Current Mission Events" (lines 797-802, 948-987)*)
(* input: [ok, rows]: ok = FALSE when requests.get / raise_for_status      *)
(*   raised; rows are the mission blocks [title, href, end]: href = FALSE  *)
(*   when the <a> has no href attribute, end is the instant its time text  *)
(*   names.                                                                *)
(***************************************************************************)
\* link = link_tag.get('href'); link.startswith('http') raises on None
MissionRaises(input) ==
    /\ input.ok
    /\ \E i \in 1..Len(input.rows) : ~input.rows[i].href

MissionEvents(input) ==
    LET One(m) == <<[title |-> IF m.title = <<>> THEN <<"M">> ELSE m.title,
                     sort |-> m.end, src |-> "mission"]>>
    IN IF ~input.ok THEN <<>> ELSE FlatMap(One, input.rows)

(***************************************************************************)
(* The JP -> Global estimate (uma.moe port, lines 469-552)                 *)
(* A pair is [jp, global], both instants in hours.  A rate is the fraction *)
(* [n, d] with d > 0, so that 1.6 is [n |-> 8, d |-> 5] and the clamp      *)
(* bounds 1.2 and 2.0 are compared exactly.                                *)
(***************************************************************************)
\* int((end - start).total_seconds() // 86400)
DaysBetween(start, end) == (end - start) \div 24

RECURSIVE InsertByField(_, _, _)
InsertByField(p, s, f) ==
    IF s = <<>> THEN <<p>>
    ELSE IF Head(s)[f] <= p[f] THEN <<Head(s)>> \o InsertByField(p, Tail(s), f)
    ELSE <<p>> \o s

\* sorted(confirmed_pairs, key=lambda p: p[f].timestamp()), stable
RECURSIVE SortPairs(_, _)
SortPairs(s, f) ==
    IF s = <<>> THEN <<>>
    ELSE InsertByField(s[Len(s)], SortPairs(SubSeq(s, 1, Len(s) - 1), f), f)

\* jp_sum and gl_sum over consecutive pairs of the window (lines 490-497)
RECURSIVE WindowSums(_, _)
WindowSums(window, i) ==
    IF i > Len(window) THEN [jp |-> 0, gl |-> 0]
    ELSE LET rest    == WindowSums(window, i + 1)
             jp_days == DaysBetween(window[i - 1].jp, window[i].jp)
             gl_days == DaysBetween(window[i - 1].global, window[i].global)
         IN IF gl_days > 0
            THEN [jp |-> rest.jp + jp_days, gl |-> rest.gl + gl_days]
            ELSE rest

\* max(1.2, min(rate, 2.0))
ClampRate(r) ==
    LET lo == IF r.n > 2 * r.d THEN [n |-> 2, d |-> 1] ELSE r IN
    IF 5 * lo.n < 6 * lo.d THEN [n |-> 6, d |-> 5] ELSE lo

\* The local variable window of _uma_moe_calculate_recent_acceleration_rate
\* (lines 483-487), for a table of at least 2 pairs
RateWindow(confirmed_pairs) ==
    LET pairs  == SortPairs(confirmed_pairs, "global")
        last   == pairs[Len(pairs)].global
        cutoff == last - 30 * 24
        recent == SelectSeq(pairs, LAMBDA p : cutoff <= p.global /\ p.global <= last)
    IN IF Len(recent) >= 2 THEN recent
       ELSE SubSeq(pairs, IF Len(pairs) > 4 THEN Len(pairs) - 3 ELSE 1, Len(pairs))

\* _uma_moe_calculate_recent_acceleration_rate, multiplier = 1.0
RecentAccelerationRate(confirmed_pairs, catchup_rate) ==
    IF Len(confirmed_pairs) < 2 THEN catchup_rate
    ELSE
      LET pairs  == SortPairs(confirmed_pairs, "global")
          last   == pairs[Len(pairs)].global
          cutoff == last - 30 * 24
          recent == SelectSeq(pairs, LAMBDA p : cutoff <= p.global /\ p.global <= last)
          window == IF Len(recent) >= 2 THEN recent
                    ELSE SubSeq(pairs, IF Len(pairs) > 4 THEN Len(pairs) - 3 ELSE 1,
                                Len(pairs))
          sums   == WindowSums(window, 2)
      IN IF Len(window) < 2 THEN catchup_rate
         ELSE IF sums.gl = 0 THEN catchup_rate
         ELSE ClampRate([n |-> sums.jp, d |-> sums.gl])

\* As AtHour22, for a result whose time of day is left as computed
AtHour22KeepTime(num, den) == num \div den

\* out.replace(hour=22, minute=0, second=0, microsecond=0) of the instant
\* num/den hours (den > 0)
AtHour22(num, den) == (num \div (24 * den)) * 24 + 22

\* The last pair with jp <= jp_date seen before the loop breaks, 0 if none
RECURSIVE PrevPair(_, _, _)
PrevPair(pairs, jp_date, i) ==
    IF i > Len(pairs) \/ pairs[i].jp > jp_date THEN 0
    ELSE LET later == PrevPair(pairs, jp_date, i + 1) IN
         IF later = 0 THEN i ELSE later

\* _uma_moe_calculate_global_date
CalculateGlobalDate(jp_date, confirmed_pairs, jp_launch, global_launch, catchup_rate) ==
    LET pairs == SortPairs(confirmed_pairs, "jp")
        fallback ==
            LET days_since  == DaysBetween(jp_launch, jp_date)
                days_global == (days_since * catchup_rate.d) \div catchup_rate.n
            IN AtHour22(global_launch + 24 * days_global, 1)
    IN
    IF pairs = <<>> THEN fallback
    ELSE
      LET pi    == PrevPair(pairs, jp_date, 1)
          ni    == IF pi < Len(pairs) THEN pi + 1 ELSE 0
          accel == RecentAccelerationRate(pairs, catchup_rate)
      IN
      IF pi # 0 /\ ni # 0 THEN
          LET jp_span == pairs[ni].jp - pairs[pi].jp
              gl_span == pairs[ni].global - pairs[pi].global
              jp_off  == jp_date - pairs[pi].jp
          IN IF jp_span = 0 THEN AtHour22(pairs[pi].global, 1)
             ELSE AtHour22(pairs[pi].global * jp_span + gl_span * jp_off, jp_span)
      ELSE IF pi # 0 THEN
          LET days == DaysBetween(pairs[pi].jp, jp_date) IN
          AtHour22(pairs[pi].global * accel.n + 24 * days * accel.d, accel.n)
      ELSE IF ni # 0 THEN
          LET days == DaysBetween(jp_date, pairs[ni].jp) IN
          AtHour22(pairs[ni].global * accel.n - 24 * days * accel.d, accel.n)
      ELSE fallback

(***************************************************************************)
(* fetch_uma_moe_upcoming: the regional-estimate source (lines 573-787)    *)
(* input: [ok, jp_launch, global_launch, catchup_rate, story, cm,          *)
(*   cm_confirmed]: ok = FALSE when the chunk could not be fetched;        *)
(*   jp_launch / global_launch 0 and catchup_rate.n 0 stand for a constant *)
(*   the script does not hold; story rows are [name, jp, global] with jp 0 *)
(*   for an unparseable start date and global 0 for no confirmed date; cm  *)
(*   rows are [name, jp] and cm_confirmed[i] is the confirmed date of the  *)
(*   i-th meeting in jp order (0 = none).                                  *)
(***************************************************************************)
UmaModelInputsPresent(input) ==
    input.jp_launch # 0 /\ input.global_launch # 0 /\ input.catchup_rate.n # 0

\* "title": it["name"] or "Story Event" (line 710), and
\* f"Champions Meeting: {it['name']}" if it["name"] else "Champions Meeting"
UmaTitle(kind, name) ==
    IF kind = "story" THEN (IF Strip(name) = <<>> THEN <<"E">> ELSE Strip(name))
    ELSE (IF Strip(name) = <<>> THEN <<"M">> ELSE <<"M", ":", " ">> \o Strip(name))

UmaEstimates(items, pairs, input, now, kind) ==
    LET One(it) ==
          LET global_ts == CalculateGlobalDate(it.jp, pairs, input.jp_launch,
                                               input.global_launch, input.catchup_rate)
          IN IF global_ts < now THEN <<>>
             ELSE <<[title |-> UmaTitle(kind, it.name), sort |-> global_ts, src |-> "uma"]>>
    IN FlatMap(One, items)

UmaStoryEvents(input, now) ==
    LET items == SortPairs(SelectSeq(input.story, LAMBDA r : r.jp # 0), "jp")
        pairs == FlatMap(LAMBDA it : IF it.global # 0
                                     THEN <<[jp |-> it.jp, global |-> it.global]>>
                                     ELSE <<>>, items)
    IN UmaEstimates(items, pairs, input, now, "story")

UmaChampionsMeetings(input, now) ==
    LET items == SortPairs(SelectSeq(input.cm, LAMBDA r : r.jp # 0), "jp")
        pairs == FlatMap(LAMBDA i : IF i <= Len(input.cm_confirmed) /\ input.cm_confirmed[i] # 0
                                    THEN <<[jp |-> items[i].jp, global |-> input.cm_confirmed[i]]>>
                                    ELSE <<>>,
                         [i \in 1..Len(items) |-> i])
    IN UmaEstimates(items, pairs, input, now, "cm")

\* Returns [banners, events]; upcoming_banners is never appended to in the
\* code, so banners is always the empty list.
FetchUmaMoeUpcoming(input, now, limit_banners, limit_events) ==
    IF ~input.ok THEN [banners |-> <<>>, events |-> <<>>]
    ELSE IF ~UmaModelInputsPresent(input) THEN [banners |-> <<>>, events |-> <<>>]
    ELSE
      LET upcoming_events == UmaStoryEvents(input, now) \o UmaChampionsMeetings(input, now)
      IN [banners |-> Take(<<>>, limit_banners),
          events  |-> DedupeByTitle(SortBySortKey(upcoming_events), {}, limit_events)]

(***************************************************************************)
(* The merge of fetch_gametora_data (lines 885-902)                        *)
(***************************************************************************)
\* As MergeUpcomingEvents, for a merge that never consults the estimates
MergeUpcomingEventsPrimaryOnly(primary, uma_events) == primary

\* if not new_data["upcoming_events"]: new_data["upcoming_events"] = uma_events[:5]
MergeUpcomingEvents(primary, uma_events) ==
    IF primary = <<>> THEN Take(uma_events, Limit) ELSE primary

RECURSIVE ExtendBanners(_, _, _)
ExtendBanners(upcoming_banners, seen, uma_banners) ==
    IF uma_banners = <<>> \/ Len(upcoming_banners) >= Limit THEN upcoming_banners
    ELSE LET b   == Head(uma_banners)
             key == TitleKey(b.title)
         IN IF key = <<>> \/ key \in seen
            THEN ExtendBanners(upcoming_banners, seen, Tail(uma_banners))
            ELSE ExtendBanners(Append(upcoming_banners, b), seen \cup {key},
                               Tail(uma_banners))

\* if len(upcoming_banners) < 5 and uma_banners: append the non-colliding ones
MergeUpcomingBanners(upcoming_banners, uma_banners) ==
    IF Len(upcoming_banners) < Limit /\ uma_banners # <<>>
    THEN ExtendBanners(upcoming_banners,
                       {TitleKey(upcoming_banners[i].title) : i \in 1..Len(upcoming_banners)},
                       uma_banners)
    ELSE upcoming_banners

(***************************************************************************)
(* Bounds of the model                                                     *)
(***************************************************************************)
\* Threads that may run _run_refresh_in_background at the same time
NumThreads == 2

\* Refresh triggers (the startup thread plus POST /api/refresh) per behaviour
MaxTriggers == 2

\* GET /api/events requests per behaviour
MaxReads == 1

\* Event pages the story-event list may name
MaxPages == 2

\* Rows the range tables may hold
MaxRows == 2

\* Confirmed pairs handed to a helper called on its own
MaxPairs == 2
MaxRecent == 3

Threads == 1..NumThreads

(***************************************************************************)
(* State                                                                   *)
(***************************************************************************)
VARIABLES
    world,                \* what the sources answer and the wall clock, for this behaviour
    events_cache,         \* the global events_cache
    refresh_lock,         \* _refresh_lock: 0 when free, else the thread holding it
    refresh_in_progress,  \* _refresh_in_progress
    pc,                   \* where each refresh thread is
    new_data,             \* each thread's local new_data (and upcoming_banners)
    failed,               \* whether the thread's pipeline run ended in the except clause
    pass,                 \* the ordinal of the pipeline run each thread is executing
    snap,                 \* events_cache as it was when the thread's run started
    ver,                  \* for each bucket of events_cache, the pass that wrote it
    triggers,             \* number of calls of _run_refresh_in_background so far
    sawIdle,              \* ... of which found _refresh_in_progress False
    sawBusy,              \* ... of which found _refresh_in_progress True
    started,              \* number of calls of fetch_gametora_data so far
    rpc,                  \* where the get_events request is
    resp,                 \* the response get_events is building / has returned
    rver,                 \* for each field of resp, the pass whose value was read
    reads,                \* number of get_events requests so far
    call,                 \* the arguments of a helper function called on its own
    ret                   \* what that call returned

vars == <<world, events_cache, refresh_lock, refresh_in_progress, pc, new_data,
          failed, pass, snap, ver, triggers, sawIdle, sawBusy, started,
          rpc, resp, rver, reads, call, ret>>

refreshVars == <<events_cache, refresh_lock, refresh_in_progress, pc, new_data,
                 failed, pass, snap, ver, triggers, sawIdle, sawBusy, started>>

readVars == <<rpc, resp, rver, reads>>

fnVars == <<call, ret>>

Buckets == {"banners", "events", "upcoming_banners", "upcoming_events"}

\* events_cache as constructed at import (lines 34-40); last_updated 0 is None
EmptyCache ==
    [banners |-> <<>>, events |-> <<>>, upcoming_banners |-> <<>>,
     upcoming_events |-> <<>>, last_updated |-> 0]

EmptyNewData ==
    [banners |-> <<>>, events |-> <<>>, upcoming_banners |-> <<>>,
     upcoming_events |-> <<>>]

(***************************************************************************)
(* The bounded inputs: what the five sources may answer                    *)
(***************************************************************************)
SeqsUpTo(S, n) == UNION {[1..k -> S] : k \in 0..n}

Dec1  == Timestamp(2025, 12, 1)
Dec5  == Timestamp(2025, 12, 5)
Dec10 == Timestamp(2025, 12, 10)
Jan10 == Timestamp(2026, 1, 10)
Dec15At22 == Timestamp(2025, 12, 15) + 22

\* Values of int(time.time())
Nows == {Dec5, Dec10, Dec15At22}

\* Availability texts
TextOf(form, when, m1, d1, y1, m2, d2, y2, marker, yeartok) ==
    [form |-> form, when |-> when, m1 |-> m1, d1 |-> d1, y1 |-> y1,
     m2 |-> m2, d2 |-> d2, y2 |-> y2, marker |-> marker, yeartok |-> yeartok]

Approx(when, m, y)           == TextOf("approx", when, m, 0, y, "", 0, 0, TRUE, TRUE)
Range1(m1, d1, m2, d2, y)    == TextOf("range1", "", m1, d1, 0, m2, d2, y, FALSE, TRUE)
Range2(m1, d1, y1, m2, d2, y2) == TextOf("range2", "", m1, d1, y1, m2, d2, y2, FALSE, TRUE)
Other(marker, yeartok)       == TextOf("other", "", "", 0, 0, "", 0, 0, marker, yeartok)
EmptyText                    == TextOf("empty", "", "", 0, 0, "", 0, 0, FALSE, FALSE)

AvailTexts ==
    { Approx("Early", "January", 2026),           \* "Early January 2026"
      Approx("Mid", "Jan", 2026),                 \* "Mid Jan 2026"
      Approx("Early", "December", 2025),          \* "Early December 2025"
      Approx("Late", "Foo", 2026),                \* matches the pattern, no such month
      Range1("Dec", 1, "Dec", 10, 2025),          \* "Dec 1 - Dec. 10, 2025"
      Range1("Dec", 28, "Jan", 7, 2026),          \* "Dec 28 - Jan 7, 2026"
      Range1("Dec", 32, "Jan", 7, 2026),          \* matches the pattern, no such day
      Range2("Dec", 28, 2025, "Jan", 7, 2026),    \* "Dec. 28, 2025 - Jan. 7, 2026"
      Range2("Jan", 1, 2060, "Jan", 10, 2060),    \* "Jan 1, 2060 - Jan 10, 2060"
      Other(TRUE, FALSE),                         \* "Late January"
      Other(FALSE, TRUE),                         \* "TBA 2026"
      Other(FALSE, FALSE),                        \* "TBA"
      EmptyText }

\* Rows of the range tables, k of them: rows 1..split are in table 1, the
\* rest in table 2
RECURSIVE Game8RowLists(_, _, _, _)
Game8RowLists(TitleSet(_), Texts, k, split) ==
    IF k = 0 THEN {<<>>}
    ELSE {Append(l, [title |-> ti, avail |-> av, table |-> IF k <= split THEN 1 ELSE 2])
            : l \in Game8RowLists(TitleSet, Texts, k - 1, split),
              ti \in TitleSet(k), av \in Texts}

Game8Lists(TitleSet(_), Texts) ==
    UNION {Game8RowLists(TitleSet, Texts, k, split) : k \in 0..MaxRows, split \in 0..MaxRows}

\* Distinct titles, every availability text
Game8DateInputs ==
    LET T(i) == {<<"g", ToString(i)>>} IN
    {[ok |-> TRUE, rows |-> r] : r \in Game8Lists(T, AvailTexts)}

\* Titles that differ in case and whitespace only, dated in the future
Game8TitleInputs ==
    LET T(i) == {<<"a", " ", "b">>, <<"A", " ", " ", "b">>, <<"A", " ", "B", " ">>,
                 <<"c">>} IN
    {[ok |-> TRUE, rows |-> r]
       : r \in Game8Lists(T, {Approx("Early", "January", 2026),
                              Range2("Dec", 28, 2025, "Jan", 7, 2026)})}

Game8Inputs ==
    {[ok |-> FALSE, rows |-> <<>>]} \cup Game8DateInputs \cup Game8TitleInputs

\* Event pages: page i of the list
StoryPages(i) ==
    {[ok |-> TRUE, title |-> <<"e", ToString(i)>>, start |-> st, end |-> en]
       : st \in {0, Dec1, Dec10, Jan10}, en \in {0, Dec1, Dec10, Jan10}}
    \cup {[ok |-> FALSE, title |-> <<"e", ToString(i)>>, start |-> 0, end |-> 0]}

RECURSIVE StoryLists(_)
StoryLists(k) ==
    IF k = 0 THEN {<<>>}
    ELSE {Append(l, p) : l \in StoryLists(k - 1), p \in StoryPages(k)}

StoryInputs ==
    {[ok |-> FALSE, rows |-> <<>>]}
    \cup {[ok |-> TRUE, rows |-> r] : r \in UNION {StoryLists(k) : k \in 0..MaxPages}}

\* Banners of the gacha page
GachaBanners ==
    { [id |-> 1, end |-> Jan10, names |-> <<"a">>],
      [id |-> 2, end |-> Dec10, names |-> <<"b", "b", "a", "c">>],
      [id |-> 3, end |-> 0,     names |-> <<>>],
      [id |-> 0, end |-> Dec10, names |-> <<>>] }

\* A gacha page with more current banners than the limit
CrowdedGacha ==
    [ok |-> TRUE,
     char    |-> [i \in 1..(Limit + 1) |-> [id |-> i, end |-> Jan10, names |-> <<>>]],
     support |-> <<>>]

GachaInputs ==
    {[ok |-> FALSE, char |-> <<>>, support |-> <<>>], CrowdedGacha}
    \cup {[ok |-> TRUE, char |-> c, support |-> su]
            : c \in SeqsUpTo(GachaBanners, 1), su \in SeqsUpTo(GachaBanners, 1)}

\* Mission blocks of the home page
MissionBlocks ==
    { [title |-> <<"m">>, href |-> TRUE,  end |-> Dec10],
      [title |-> <<>>,    href |-> TRUE,  end |-> Jan10],
      [title |-> <<"m">>, href |-> FALSE, end |-> Dec10] }

\* A home page with as many mission blocks as the limit
CrowdedHome ==
    [ok |-> TRUE,
     rows |-> [i \in 1..Limit |-> [title |-> <<"m">>, href |-> TRUE, end |-> Jan10]]]

HomeInputs ==
    {[ok |-> FALSE, rows |-> <<>>], CrowdedHome}
    \cup {[ok |-> TRUE, rows |-> r] : r \in SeqsUpTo(MissionBlocks, 1)}

\* The uma.moe timeline chunk
UmaStoryRows ==
    << [name |-> <<"x">>, jp |-> Timestamp(2024, 6, 1),  global |-> Timestamp(2025, 10, 1) + 22],
       [name |-> <<"y">>, jp |-> Timestamp(2024, 7, 1),  global |-> Timestamp(2025, 10, 20) + 22],
       [name |-> <<"z">>, jp |-> Timestamp(2024, 10, 1), global |-> 0],
       [name |-> <<"Z">>, jp |-> Timestamp(2024, 10, 15), global |-> 0],
       [name |-> <<"w">>, jp |-> 0,                      global |-> 0] >>

\* A timeline with more story events than the limit, none of them confirmed
CrowdedUma ==
    [ok |-> TRUE, jp_launch |-> Timestamp(2024, 2, 24),
     global_launch |-> Timestamp(2025, 6, 26), catchup_rate |-> [n |-> 8, d |-> 5],
     story |-> [i \in 1..(Limit + 1) |->
                  [name |-> <<"n", ToString(i)>>, jp |-> Timestamp(2025, 1, i), global |-> 0]],
     cm |-> <<>>, cm_confirmed |-> <<>>]

UmaInputs ==
    {[ok |-> FALSE, jp_launch |-> 0, global_launch |-> 0, catchup_rate |-> [n |-> 0, d |-> 1],
      story |-> <<>>, cm |-> <<>>, cm_confirmed |-> <<>>], CrowdedUma}
    \cup {[ok |-> TRUE, jp_launch |-> jl, global_launch |-> gl, catchup_rate |-> cr,
           story |-> SubSeq(UmaStoryRows, from, Len(UmaStoryRows)), cm |-> cm,
           cm_confirmed |-> cc]
            : jl \in {0, Timestamp(2024, 2, 24)}, gl \in {0, Timestamp(2025, 6, 26)},
              cr \in {[n |-> 0, d |-> 1], [n |-> 8, d |-> 5]},
              from \in 1..(Len(UmaStoryRows) + 1),
              cm \in {<<>>, <<[name |-> <<"z">>, jp |-> Timestamp(2024, 11, 1)]>>,
                      <<[name |-> <<"v">>, jp |-> Timestamp(2025, 1, 1)]>>},
              cc \in {<<>>, <<Timestamp(2025, 9, 1) + 22>>}}

\* The world in which every source answers and yields at least one item
BaseWorld ==
    [now   |-> Dec5,
     home  |-> [ok |-> TRUE, rows |-> <<[title |-> <<"m">>, href |-> TRUE, end |-> Dec10]>>],
     gacha |-> [ok |-> TRUE,
                char    |-> <<[id |-> 1, end |-> Jan10, names |-> <<"a">>]>>,
                support |-> <<[id |-> 2, end |-> Dec10, names |-> <<"b", "b", "a", "c">>]>>],
     story |-> [ok |-> TRUE,
                rows |-> <<[ok |-> TRUE, title |-> <<"e", "1">>, start |-> Dec1, end |-> Jan10],
                           [ok |-> TRUE, title |-> <<"e", "2">>, start |-> Jan10, end |-> 0]>>],
     game8 |-> [ok |-> TRUE,
                rows |-> <<[title |-> <<"a", " ", "b">>,
                            avail |-> Range2("Dec", 28, 2025, "Jan", 7, 2026),
                            table |-> 1]>>],
     uma   |-> [ok |-> TRUE, jp_launch |-> Timestamp(2024, 2, 24),
                global_launch |-> Timestamp(2025, 6, 26),
                catchup_rate |-> [n |-> 8, d |-> 5],
                story |-> UmaStoryRows, cm |-> <<>>, cm_confirmed |-> <<>>]]

\* A story-event list with one running event and no upcoming one
QuietStory ==
    [ok |-> TRUE,
     rows |-> <<[ok |-> TRUE, title |-> <<"e", "1">>, start |-> Dec1, end |-> Jan10]>>]

\* w is a world that differs from BaseWorld in the clock and in what one
\* source answers, or in what the estimate source answers while the story
\* list has no upcoming event
IsWorld(w) ==
    \E n \in Nows :
        LET base == [BaseWorld EXCEPT !.now = n] IN
        \/ \E x \in HomeInputs  : w = [base EXCEPT !.home = x]
        \/ \E x \in GachaInputs : w = [base EXCEPT !.gacha = x]
        \/ \E x \in StoryInputs : w = [base EXCEPT !.story = x]
        \/ \E x \in Game8Inputs : w = [base EXCEPT !.game8 = x]
        \/ \E x \in UmaInputs   : w = [base EXCEPT !.uma = x]
        \/ \E x \in UmaInputs   : w = [base EXCEPT !.story = QuietStory, !.uma = x]

\* The worlds the concurrent service is explored in: all sources answer; the
\* home page request fails; a range-table row names no valid date; a mission
\* block has no link
ServiceWorlds ==
    { BaseWorld,
      [BaseWorld EXCEPT !.home.ok = FALSE],
      [BaseWorld EXCEPT !.game8.rows[1].avail = Approx("Late", "Foo", 2026)],
      [BaseWorld EXCEPT !.home.rows[1].href = FALSE] }

(***************************************************************************)
(* Control flow of _run_refresh_in_background and fetch_gametora_data      *)
(*                                                                         *)
(* pc[t]: "idle"    no call in progress on thread t                        *)
(*        "lock"    at `with _refresh_lock:` of line 1009                  *)
(*        "check"   holding the lock, at `if _refresh_in_progress:`        *)
(*        "home" .. "mission"       the steps of fetch_gametora_data       *)
(*        "pub_banners" .. "pub_last_updated"   the assignments 994-998    *)
(*        "finally" at `with _refresh_lock:` of line 1017                  *)
(*        "clear"   holding the lock, at `_refresh_in_progress = False`    *)
(***************************************************************************)
\* The order of the steps of fetch_gametora_data
StageOrder ==
    <<"home", "gacha", "story", "game8", "uma", "mission",
      "pub_banners", "pub_events", "pub_upcoming_banners", "pub_upcoming_events",
      "pub_last_updated", "finally">>

\* As NextStage, with the first assignment to events_cache made before the
\* mission events are parsed
NextStageEarlyPublish(stage) ==
    LET order == <<"home", "gacha", "story", "game8", "uma", "pub_banners", "mission",
                   "pub_events", "pub_upcoming_banners", "pub_upcoming_events",
                   "pub_last_updated", "finally">>
        i == CHOOSE k \in 1..Len(order) : order[k] = stage
    IN order[i + 1]

NextStage(stage) ==
    LET i == CHOOSE k \in 1..Len(StageOrder) : StageOrder[k] = stage IN StageOrder[i + 1]

PubStages ==
    {"pub_banners", "pub_events", "pub_upcoming_banners", "pub_upcoming_events",
     "pub_last_updated"}

PipelineStages == {"home", "gacha", "story", "game8", "uma", "mission"} \cup PubStages

\* As ObservedIdle, for a call that never consults the flag
ObservedIdleUnchecked(flag) == TRUE

\* `if _refresh_in_progress: return`: the call goes on only if the flag is False
ObservedIdle(flag) == ~flag

\* As AfterBusy, for a call that waits for the lock again instead of returning
AfterBusyRetry == "lock"

\* Where a call that found the flag set goes: it returns
AfterBusy == "idle"

\* No helper is being called on its own
NoCall ==
    [fn |-> "none", pairs |-> <<>>, rate |-> [n |-> 0, d |-> 1], jp_a |-> 0, jp_b |-> 0,
     jp_launch |-> 0, global_launch |-> 0, text |-> EmptyText]

NoReturn ==
    [done |-> FALSE, rate |-> [n |-> 0, d |-> 1], window |-> <<>>, est_a |-> 0,
     est_b |-> 0, parsed |-> NoDate]

\* The module-level state after import (lines 34-43), no request served yet
ServiceInit ==
    /\ events_cache = EmptyCache
    /\ refresh_lock = 0
    /\ refresh_in_progress = FALSE
    /\ pc = [t \in Threads |-> "idle"]
    /\ new_data = [t \in Threads |-> EmptyNewData]
    /\ failed = [t \in Threads |-> FALSE]
    /\ pass = [t \in Threads |-> 0]
    /\ snap = [t \in Threads |-> EmptyCache]
    /\ ver = [b \in Buckets |-> 0]
    /\ triggers = 0
    /\ sawIdle = 0
    /\ sawBusy = 0
    /\ started = 0
    /\ rpc = "idle"
    /\ resp = EmptyCache
    /\ rver = [b \in Buckets |-> 0]
    /\ reads = 0

Init ==
    /\ world \in ServiceWorlds
    /\ ServiceInit
    /\ call = NoCall
    /\ ret = NoReturn

\* startup_event / refresh_now: threading.Thread(target=_run_refresh_in_background).start()
Trigger(t) ==
    /\ pc[t] = "idle"
    /\ triggers < MaxTriggers
    /\ pc' = [pc EXCEPT ![t] = "lock"]
    /\ triggers' = triggers + 1
    /\ UNCHANGED <<world, events_cache, refresh_lock, refresh_in_progress, new_data,
                   failed, pass, snap, ver, sawIdle, sawBusy, started, readVars>>
    /\ UNCHANGED fnVars

\* with _refresh_lock: (line 1009)
AcquireLock(t) ==
    /\ pc[t] = "lock"
    /\ refresh_lock = 0
    /\ refresh_lock' = t
    /\ pc' = [pc EXCEPT ![t] = "check"]
    /\ UNCHANGED <<world, events_cache, refresh_in_progress, new_data, failed, pass,
                   snap, ver, triggers, sawIdle, sawBusy, started, readVars>>
    /\ UNCHANGED fnVars

\* if _refresh_in_progress: return   (the lock is released on the way out)
CheckBusy(t) ==
    /\ pc[t] = "check"
    /\ ~ObservedIdle(refresh_in_progress)
    /\ refresh_lock' = 0
    /\ pc' = [pc EXCEPT ![t] = AfterBusy]
    /\ sawBusy' = sawBusy + 1
    /\ UNCHANGED <<world, events_cache, refresh_in_progress, new_data, failed, pass,
                   snap, ver, triggers, sawIdle, started, readVars>>
    /\ UNCHANGED fnVars

\* _refresh_in_progress = True   (and the lock is released)
CheckIdle(t) ==
    /\ pc[t] = "check"
    /\ ObservedIdle(refresh_in_progress)
    /\ refresh_in_progress' = TRUE
    /\ refresh_lock' = 0
    /\ pc' = [pc EXCEPT ![t] = "home"]
    /\ sawIdle' = sawIdle + 1
    /\ snap' = [snap EXCEPT ![t] = events_cache]
    /\ failed' = [failed EXCEPT ![t] = FALSE]
    /\ UNCHANGED <<world, events_cache, new_data, pass, ver, triggers, sawBusy,
                   started, readVars>>
    /\ UNCHANGED fnVars

\* An exception reaches `except Exception as e:` of line 1004: it is logged,
\* fetch_gametora_data returns and the finally clause runs.
\* As AfterRaise, for a call that has no finally clause: the thread ends
AfterRaiseNoFinally == "idle"

\* Where a run that raised goes: the except clause of line 1004 returns, and
\* the finally clause of line 1016 follows
AfterRaise == "finally"

Raise(t) ==
    /\ pc' = [pc EXCEPT ![t] = AfterRaise]
    /\ failed' = [failed EXCEPT ![t] = TRUE]

\* fetch_gametora_data is entered; requests.get(url) and raise_for_status (797-807)
FetchHome(t) ==
    /\ pc[t] = "home"
    /\ started' = started + 1
    /\ pass' = [pass EXCEPT ![t] = started + 1]
    /\ IF ~world.home.ok
       THEN Raise(t) /\ UNCHANGED new_data
       ELSE /\ pc' = [pc EXCEPT ![t] = NextStage("home")]
            /\ new_data' = [new_data EXCEPT ![t] = EmptyNewData]
            /\ UNCHANGED failed
    /\ UNCHANGED <<world, events_cache, refresh_lock, refresh_in_progress, snap, ver,
                   triggers, sawIdle, sawBusy, readVars>>
    /\ UNCHANGED fnVars

\* The gacha block (814-871): its own try/except, a failure leaves banners empty
FetchGacha(t) ==
    /\ pc[t] = "gacha"
    /\ new_data' = [new_data EXCEPT ![t].banners = CurrentBanners(world.gacha)]
    /\ pc' = [pc EXCEPT ![t] = NextStage("gacha")]
    /\ UNCHANGED <<world, events_cache, refresh_lock, refresh_in_progress, failed, pass,
                   snap, ver, triggers, sawIdle, sawBusy, started, readVars>>
    /\ UNCHANGED fnVars

\* current_events, upcoming_events = fetch_story_events(limit=5)   (874-876)
FetchStory(t) ==
    /\ pc[t] = "story"
    /\ LET r == FetchStoryEvents(world.story, world.now, Limit) IN
       new_data' = [new_data EXCEPT ![t].events = r.current,
                                    ![t].upcoming_events = r.upcoming]
    /\ pc' = [pc EXCEPT ![t] = NextStage("story")]
    /\ UNCHANGED <<world, events_cache, refresh_lock, refresh_in_progress, failed, pass,
                   snap, ver, triggers, sawIdle, sawBusy, started, readVars>>
    /\ UNCHANGED fnVars

\* upcoming_banners = fetch_game8_upcoming_banners(limit=5)   (880)
FetchGame8(t) ==
    /\ pc[t] = "game8"
    /\ IF Game8Raises(world.game8)
       THEN Raise(t) /\ UNCHANGED new_data
       ELSE /\ new_data' = [new_data EXCEPT ![t].upcoming_banners =
                               FetchGame8UpcomingBanners(world.game8, world.now, Limit)]
            /\ pc' = [pc EXCEPT ![t] = NextStage("game8")]
            /\ UNCHANGED failed
    /\ UNCHANGED <<world, events_cache, refresh_lock, refresh_in_progress, pass,
                   snap, ver, triggers, sawIdle, sawBusy, started, readVars>>
    /\ UNCHANGED fnVars

\* fetch_uma_moe_upcoming and the merge with the primary lists (883-902)
FetchUma(t) ==
    /\ pc[t] = "uma"
    /\ LET u == FetchUmaMoeUpcoming(world.uma, world.now, UmaLimit, UmaLimit) IN
       new_data' = [new_data EXCEPT
          ![t].upcoming_events  = MergeUpcomingEvents(new_data[t].upcoming_events, u.events),
          ![t].upcoming_banners = MergeUpcomingBanners(new_data[t].upcoming_banners, u.banners)]
    /\ pc' = [pc EXCEPT ![t] = NextStage("uma")]
    /\ UNCHANGED <<world, events_cache, refresh_lock, refresh_in_progress, failed, pass,
                   snap, ver, triggers, sawIdle, sawBusy, started, readVars>>
    /\ UNCHANGED fnVars

\* "Current Mission Events" are appended to new_data["events"]   (948-987)
ParseMissions(t) ==
    /\ pc[t] = "mission"
    /\ IF MissionRaises(world.home)
       THEN Raise(t) /\ UNCHANGED new_data
       ELSE /\ new_data' = [new_data EXCEPT ![t].events = @ \o MissionEvents(world.home)]
            /\ pc' = [pc EXCEPT ![t] = NextStage("mission")]
            /\ UNCHANGED failed
    /\ UNCHANGED <<world, events_cache, refresh_lock, refresh_in_progress, pass,
                   snap, ver, triggers, sawIdle, sawBusy, started, readVars>>
    /\ UNCHANGED fnVars

\* The bucket an assignment of lines 994-997 writes
BucketOfStage(stage) ==
    IF stage = "pub_banners" THEN "banners"
    ELSE IF stage = "pub_events" THEN "events"
    ELSE IF stage = "pub_upcoming_banners" THEN "upcoming_banners"
    ELSE "upcoming_events"

\* events_cache[...] = new_data[...]: one assignment of lines 994-997
PublishBucket(t) ==
    /\ pc[t] \in PubStages \ {"pub_last_updated"}
    /\ LET b == BucketOfStage(pc[t]) IN
       /\ events_cache' = [events_cache EXCEPT ![b] = new_data[t][b]]
       /\ ver' = [ver EXCEPT ![b] = pass[t]]
    /\ pc' = [pc EXCEPT ![t] = NextStage(pc[t])]
    /\ UNCHANGED <<world, refresh_lock, refresh_in_progress, new_data, failed, pass,
                   snap, triggers, sawIdle, sawBusy, started, readVars>>
    /\ UNCHANGED fnVars

\* events_cache["last_updated"] = datetime.now().isoformat()   (998)
\* The stamp of a pass is modelled by the ordinal of the pass.
PublishLastUpdated(t) ==
    /\ pc[t] = "pub_last_updated"
    /\ events_cache' = [events_cache EXCEPT !.last_updated = pass[t]]
    /\ pc' = [pc EXCEPT ![t] = NextStage(pc[t])]
    /\ UNCHANGED <<world, refresh_lock, refresh_in_progress, new_data, failed, pass,
                   snap, ver, triggers, sawIdle, sawBusy, started, readVars>>
    /\ UNCHANGED fnVars

\* finally: with _refresh_lock:   (1016-1017)
FinallyAcquire(t) ==
    /\ pc[t] = "finally"
    /\ refresh_lock = 0
    /\ refresh_lock' = t
    /\ pc' = [pc EXCEPT ![t] = "clear"]
    /\ UNCHANGED <<world, events_cache, refresh_in_progress, new_data, failed, pass,
                   snap, ver, triggers, sawIdle, sawBusy, started, readVars>>
    /\ UNCHANGED fnVars

\* _refresh_in_progress = False   (1018; the lock is released, the thread ends
\* and its locals are gone)
ClearFlag(t) ==
    /\ pc[t] = "clear"
    /\ refresh_in_progress' = FALSE
    /\ refresh_lock' = 0
    /\ pc' = [pc EXCEPT ![t] = "idle"]
    /\ new_data' = [new_data EXCEPT ![t] = EmptyNewData]
    /\ failed' = [failed EXCEPT ![t] = FALSE]
    /\ pass' = [pass EXCEPT ![t] = 0]
    /\ snap' = [snap EXCEPT ![t] = EmptyCache]
    /\ UNCHANGED <<world, events_cache, ver, triggers, sawIdle, sawBusy, started,
                   readVars>>
    /\ UNCHANGED fnVars

(***************************************************************************)
(* get_events (lines 1081-1124): the fields of events_cache are read one   *)
(* after the other, without the lock                                       *)
(***************************************************************************)
ReadOrder ==
    <<"upcoming_banners", "upcoming_events", "banners", "events", "last_updated", "done">>

NextRead(field) ==
    LET i == CHOOSE k \in 1..Len(ReadOrder) : ReadOrder[k] = field IN ReadOrder[i + 1]

\* "No upcoming banners found" / "No upcoming events found"
Placeholder == [title |-> <<"N">>, sort |-> 0, src |-> "placeholder"]

\* The request arrives
ReadStart ==
    /\ rpc \in {"idle", "done"}
    /\ reads < MaxReads
    /\ reads' = reads + 1
    /\ rpc' = ReadOrder[1]
    /\ resp' = EmptyCache
    /\ rver' = [b \in Buckets |-> 0]
    /\ UNCHANGED <<world, refreshVars>>
    /\ UNCHANGED fnVars

\* events_cache.get("upcoming_banners", []) or [] ... events_cache["events"]
ReadBucket ==
    /\ rpc \in Buckets
    /\ LET v == events_cache[rpc] IN
       resp' = [resp EXCEPT ![rpc] =
                   IF rpc \in {"upcoming_banners", "upcoming_events"} /\ v = <<>>
                   THEN <<Placeholder>> ELSE v]
    /\ rver' = [rver EXCEPT ![rpc] = ver[rpc]]
    /\ rpc' = NextRead(rpc)
    /\ UNCHANGED <<world, refreshVars, reads>>
    /\ UNCHANGED fnVars

\* "last_updated": events_cache["last_updated"]; the response is returned
ReadLastUpdated ==
    /\ rpc = "last_updated"
    /\ resp' = [resp EXCEPT !.last_updated = events_cache.last_updated]
    /\ rpc' = NextRead(rpc)
    /\ UNCHANGED <<world, refreshVars, rver, reads>>
    /\ UNCHANGED fnVars

\* Between two refreshes a source may start or stop failing
SourcesChange ==
    /\ \A t \in Threads : pc[t] = "idle"
    /\ world' \in ServiceWorlds \ {world}
    /\ UNCHANGED <<refreshVars, readVars>>
    /\ UNCHANGED fnVars

(***************************************************************************)
(* Specifications                                                          *)
(***************************************************************************)
\* The steps of a call of _run_refresh_in_background once it is started
Run(t) ==
    \/ AcquireLock(t)
    \/ CheckBusy(t)
    \/ CheckIdle(t)
    \/ FetchHome(t)
    \/ FetchGacha(t)
    \/ FetchStory(t)
    \/ FetchGame8(t)
    \/ FetchUma(t)
    \/ ParseMissions(t)
    \/ PublishBucket(t)
    \/ PublishLastUpdated(t)
    \/ FinallyAcquire(t)
    \/ ClearFlag(t)

Refresh(t) == Trigger(t) \/ Run(t)

Next ==
    \/ \E t \in Threads : Refresh(t)
    \/ ReadStart
    \/ ReadBucket
    \/ ReadLastUpdated
    \/ SourcesChange

\* The service: refresh threads and get_events requests interleaved
Spec == Init /\ [][Next]_vars

\* The steps of a call that wait for nothing but the lock: the tests and
\* assignments of _run_refresh_in_background and the assignments 994-998
Control(t) ==
    \/ AcquireLock(t)
    \/ CheckBusy(t)
    \/ CheckIdle(t)
    \/ PublishBucket(t)
    \/ PublishLastUpdated(t)
    \/ FinallyAcquire(t)
    \/ ClearFlag(t)

\* Some call is waiting for a source or parsing its answer
Fetching ==
    \E t \in Threads : pc[t] \in {"home", "gacha", "story", "game8", "uma", "mission"}

\* The service when every thread that can take a control step takes one (a
\* started thread is scheduled, and the lock is held for one test or one
\* assignment only) and every fetch returns or raises (the requests carry
\* timeouts), so that no call stays in the fetch steps for ever
SpecLive == Spec /\ (\A t \in Threads : WF_vars(Control(t))) /\ []<>~Fetching

\* One refresh pass on one thread, followed by one get_events request, over
\* every bounded input
InitPipe ==
    /\ IsWorld(world)
    /\ ServiceInit
    /\ call = NoCall
    /\ ret = NoReturn

NextPipe ==
    \/ triggers = 0 /\ Trigger(1)
    \/ AcquireLock(1)
    \/ CheckIdle(1)
    \/ FetchHome(1)
    \/ FetchGacha(1)
    \/ FetchStory(1)
    \/ FetchGame8(1)
    \/ FetchUma(1)
    \/ ParseMissions(1)
    \/ PublishBucket(1)
    \/ PublishLastUpdated(1)
    \/ FinallyAcquire(1)
    \/ ClearFlag(1)

SpecPipe == InitPipe /\ [][NextPipe]_vars

(***************************************************************************)
(* The helper functions called on their own, over bounded arguments        *)
(***************************************************************************)
\* Confirmed pairs: regional instants a month apart, global instants that
\* may repeat or go back
PairSet ==
    {[jp |-> j, global |-> g]
       : j \in {Timestamp(2024, 6, 1), Timestamp(2024, 7, 1), Timestamp(2024, 8, 1)},
         g \in {Timestamp(2025, 10, 1) + 22, Timestamp(2025, 10, 20) + 22,
                Timestamp(2025, 11, 20) + 22}}

\* Values of catchup_rate: 1.0, 1.6 and 2.5
RateSet == {[n |-> 1, d |-> 1], [n |-> 8, d |-> 5], [n |-> 5, d |-> 2]}

\* Regional instants before, at, between and after the confirmed ones
JpDates ==
    {Timestamp(2024, 5, 15), Timestamp(2024, 6, 1), Timestamp(2024, 6, 16),
     Timestamp(2024, 7, 1), Timestamp(2024, 9, 1)}

\* Confirmed pairs of a longer table: regional instants a month apart or a
\* few days apart, global instants far apart or equal
RecentPairs ==
    {[jp |-> Timestamp(2024, 6, 1), global |-> Timestamp(2025, 10, 1) + 22],
     [jp |-> Timestamp(2024, 7, 1), global |-> Timestamp(2025, 11, 20) + 22],
     [jp |-> Timestamp(2024, 8, 1), global |-> Timestamp(2025, 11, 20) + 22],
     [jp |-> Timestamp(2024, 8, 10), global |-> Timestamp(2026, 1, 10) + 22]}

RateCalls ==
    {[NoCall EXCEPT !.fn = "rate", !.pairs = ps, !.rate = r]
       : ps \in SeqsUpTo(PairSet, MaxPairs), r \in RateSet}
    \cup {[NoCall EXCEPT !.fn = "rate", !.pairs = ps, !.rate = [n |-> 8, d |-> 5]]
            : ps \in [1..MaxRecent -> RecentPairs]}

DateCalls ==
    {[NoCall EXCEPT !.fn = "date", !.pairs = ps, !.rate = r, !.jp_a = a, !.jp_b = b,
                    !.jp_launch = Timestamp(2024, 2, 24),
                    !.global_launch = Timestamp(2025, 6, 26)]
       : ps \in SeqsUpTo(PairSet, MaxPairs), r \in {[n |-> 8, d |-> 5]},
         a \in JpDates, b \in JpDates}

ParseCalls == {[NoCall EXCEPT !.fn = "parse", !.text = x] : x \in AvailTexts}

InitFn ==
    /\ world = BaseWorld
    /\ ServiceInit
    /\ call \in RateCalls \cup DateCalls \cup ParseCalls
    /\ ret = NoReturn

\* _uma_moe_calculate_recent_acceleration_rate(confirmed_pairs, catchup_rate, 1.0)
CallRecentAccelerationRate ==
    /\ call.fn = "rate" /\ ~ret.done
    /\ ret' = [ret EXCEPT !.done = TRUE,
                          !.rate = RecentAccelerationRate(call.pairs, call.rate),
                          !.window = IF Len(call.pairs) < 2 THEN <<>>
                                     ELSE RateWindow(call.pairs)]
    /\ UNCHANGED <<world, refreshVars, readVars, call>>

\* _uma_moe_calculate_global_date for two regional instants and one table
CallCalculateGlobalDate ==
    /\ call.fn = "date" /\ ~ret.done
    /\ ret' = [ret EXCEPT !.done = TRUE,
                  !.est_a = CalculateGlobalDate(call.jp_a, call.pairs, call.jp_launch,
                                                call.global_launch, call.rate),
                  !.est_b = CalculateGlobalDate(call.jp_b, call.pairs, call.jp_launch,
                                                call.global_launch, call.rate)]
    /\ UNCHANGED <<world, refreshVars, readVars, call>>

\* _parse_game8_utc_date_range(text)
CallParseGame8DateRange ==
    /\ call.fn = "parse" /\ ~ret.done
    /\ ret' = [ret EXCEPT !.done = TRUE, !.parsed = ParseGame8DateRange(call.text)]
    /\ UNCHANGED <<world, refreshVars, readVars, call>>

NextFn ==
    \/ CallRecentAccelerationRate
    \/ CallCalculateGlobalDate
    \/ CallParseGame8DateRange

SpecFn == InitFn /\ [][NextFn]_vars

(***************************************************************************)
(* Properties of the refresh cache                                         *)
(***************************************************************************)
Executing == {t \in Threads : pc[t] \in PipelineStages}

\* C1: whatever the number of calls of _run_refresh_in_background, at no
\* time are two threads inside fetch_gametora_data.
C1_AtMostOneRefresh == Cardinality(Executing) <= 1

\* A second call has found the flag set and returned while a first is still
\* inside fetch_gametora_data.
C1_Witness == sawBusy >= 1 /\ Executing # {}

\* C2: a get_events response never mixes refresh passes: its four buckets
\* and its last_updated were all written by one and the same pass (pass 0
\* being the cache as constructed).
C2_ReadIsOnePass ==
    rpc = "done" => \A b \in Buckets : rver[b] = resp.last_updated

\* C3: a call that finds a refresh in progress returns without touching the
\* cache or the flag and without a run being queued: every call of
\* fetch_gametora_data belongs to a call that found the flag clear, and a
\* call is counted once, as having found the flag clear or set.
C3_Counts ==
    /\ sawIdle = started + Cardinality({t \in Threads : pc[t] = "home"})
    /\ triggers = sawIdle + sawBusy
                    + Cardinality({t \in Threads : pc[t] \in {"lock", "check"}})

C3_BusyStep ==
    \A t \in Threads :
        (pc[t] = "check" /\ refresh_in_progress /\ pc'[t] # "check")
            => /\ pc'[t] = "idle"
               /\ UNCHANGED <<events_cache, ver, refresh_in_progress, started, new_data>>

C3_BusyTriggerIsNoOp == []C3_Counts /\ [][C3_BusyStep]_vars

\* One call ran the pipeline, another found it in progress, and once both
\* have returned nothing else has run.
C3_Witness ==
    /\ triggers = 2 /\ sawBusy = 1 /\ started = 1
    /\ \A t \in Threads : pc[t] = "idle"
    /\ ~refresh_in_progress

\* C4: when fetch_gametora_data returns, either it failed and events_cache
\* is, field by field, what it was when the run started, or it did not fail
\* and every field of events_cache is the one this run built.
C4_FailedRefreshLeavesCache ==
    \A t \in Threads :
        pc[t] \in {"finally", "clear"} =>
            IF failed[t]
            THEN events_cache = snap[t]
            ELSE /\ \A b \in Buckets : events_cache[b] = new_data[t][b] /\ ver[b] = pass[t]
                 /\ events_cache.last_updated = pass[t]

\* A run failed although an earlier run had populated the cache.
C4_Witness ==
    \E t \in Threads :
        pc[t] = "finally" /\ failed[t] /\ snap[t].last_updated # 0 /\ snap[t].banners # <<>>

\* C5: get_events answers with what was last published; until a refresh has
\* published, the answer is the cache as constructed: last_updated None and
\* no current banner or event.
C5_ReadReturnsPublished ==
    rpc = "done" =>
        (resp.last_updated = 0 => resp.banners = <<>> /\ resp.events = <<>>)

(***************************************************************************)
(* Properties of a refresh pass                                            *)
(***************************************************************************)
\* The thread has left fetch_gametora_data
Returned(t) == pc[t] \in {"finally", "clear"}

Published(b) == Range(events_cache[b])

\* The source a published item came from
SourceOf(it) ==
    IF it.src = "mission" THEN "home"
    ELSE IF it.src \in {"game8:1", "game8:2"} THEN "game8"
    ELSE it.src

Contribution(s) ==
    {it \in UNION {Published(b) : b \in Buckets} : SourceOf(it) = s}

\* The sources that failed or returned nothing
DownSources(w) ==
    {s \in {"home", "gacha", "story", "game8", "uma"} :
        \/ ~w[s].ok
        \/ s \in {"home", "story", "game8"} /\ w[s].rows = <<>>
        \/ s = "gacha" /\ w.gacha.char = <<>> /\ w.gacha.support = <<>>
        \/ s = "uma" /\ w.uma.story = <<>> /\ w.uma.cm = <<>>}

\* C6: when exactly one source fails or returns nothing, the refresh still
\* publishes; the failed source contributes nothing and the home page, the
\* gacha page, the story-event list and the range table, when they answered,
\* have their items in the published result. (The regional-estimate source
\* is a fallback: its items are expected only on a shortfall.)
C6_OneSourceDownStillPublishes ==
    \A t \in Threads :
        (Returned(t) /\ Cardinality(DownSources(world)) = 1) =>
            /\ ~failed[t]
            /\ \A s \in DownSources(world) : Contribution(s) = {}
            /\ \A s \in {"home", "gacha", "story", "game8"} \ DownSources(world) :
                  Contribution(s) # {}

IsMonthName(tok) == MonthShort(tok) # 0 \/ MonthLong(tok) # 0

IsDayOf(tok, d) ==
    LET m == IF MonthShort(tok) # 0 THEN MonthShort(tok) ELSE MonthLong(tok) IN
    d >= 1 /\ d <= DaysInMonth(m)

\* The text matches one of the three patterns and names no valid date
InvalidDateText(text) ==
    \/ text.form = "approx" /\ ~IsMonthName(text.m1)
    \/ /\ text.form \in {"range1", "range2"}
       /\ \/ ~IsMonthName(text.m1) \/ ~IsMonthName(text.m2)
          \/ ~IsDayOf(text.m1, text.d1) \/ ~IsDayOf(text.m2, text.d2)

\* C7: an availability text that matches a pattern and names an invalid
\* month or day costs its own record only: the refresh does not fail, and
\* every other record of the range table that is upcoming is published.
C7_InvalidDateDropsOnlyItsRecord ==
    \A t \in Threads :
        ( /\ Returned(t)
          /\ world.home.ok /\ ~MissionRaises(world.home)
          /\ \E i \in 1..Len(world.game8.rows) :
                /\ ~Game8Skipped(world.game8.rows[i])
                /\ InvalidDateText(world.game8.rows[i].avail) )
        => /\ ~failed[t]
           /\ \A j \in 1..Len(world.game8.rows) :
                LET r == world.game8.rows[j] IN
                ( /\ ~Game8Skipped(r) /\ ~InvalidDateText(r.avail)
                  /\ Game8SortTs(r, world.now) # 0 )
                => \E it \in Published("upcoming_banners") :
                      TitleKey(it.title) = TitleKey(r.title)

RECURSIVE CollapseSpaces(_)
CollapseSpaces(s) ==
    IF Len(s) < 2 THEN s
    ELSE IF s[1] = " " /\ s[2] = " " THEN CollapseSpaces(Tail(s))
    ELSE <<s[1]>> \o CollapseSpaces(Tail(s))

NormTitle(t) == LowerStr(CollapseSpaces(Strip(t)))

\* C9: records whose titles are equal after case-folding and whitespace
\* normalization, internal whitespace included, are merged into one item:
\* the published upcoming banners hold at most one item per normalized title.
C9_OnePerNormalizedTitle ==
    \A t \in Threads :
        (Returned(t) /\ ~failed[t]) =>
            LET ub == events_cache.upcoming_banners IN
            \A i, j \in 1..Len(ub) :
                i < j => NormTitle(ub[i].title) # NormTitle(ub[j].title)

\* C10: every published bucket is in non-decreasing order of its sort key.
C10_BucketsSorted ==
    \A t \in Threads :
        (Returned(t) /\ ~failed[t]) =>
            \A b \in Buckets : \A i, j \in 1..Len(events_cache[b]) :
                i < j => events_cache[b][i].sort <= events_cache[b][j].sort

\* C11: every bucket published by a refresh holds at most limit (5) items,
\* whatever number of records the sources supply.
C11_BucketsWithinLimit ==
    \A t \in Threads :
        (Returned(t) /\ ~failed[t]) =>
            \A b \in Buckets : Len(events_cache[b]) <= Limit

\* The story-event list yields no upcoming event
NoPrimaryUpcoming(w) ==
    \/ ~w.story.ok
    \/ \A i \in 1..Len(w.story.rows) :
          LET p == w.story.rows[i] IN ~(p.ok /\ p.start # 0 /\ p.start > w.now)

\* What the regional-estimate source returns as events
FallbackEvents(w) == FetchUmaMoeUpcoming(w.uma, w.now, UmaLimit, UmaLimit).events

\* C12: when the story-event list yields no upcoming event and the estimate
\* source yields at least one, the published upcoming events are the
\* estimate source's items, one per title, at most limit of them, and the
\* bucket is not empty.
C12_FallbackFillsEmptyPrimary ==
    \A t \in Threads :
        ( /\ Returned(t) /\ ~failed[t]
          /\ NoPrimaryUpcoming(world) /\ FallbackEvents(world) # <<>> )
        => LET ue == events_cache.upcoming_events IN
           /\ ue # <<>>
           /\ Len(ue) <= Limit
           /\ ue = Take(FallbackEvents(world), Limit)
           /\ \A i \in 1..Len(ue) : ue[i].src = "uma"
           /\ \A i, j \in 1..Len(ue) :
                 i < j => TitleKey(ue[i].title) # TitleKey(ue[j].title)

\* The estimates were published in place of an empty primary list, two of
\* them with one title having been merged into one item.
C12_Witness ==
    /\ Returned(1) /\ ~failed[1]
    /\ NoPrimaryUpcoming(world)
    /\ events_cache.upcoming_events # <<>>
    /\ Len(UmaStoryEvents(world.uma, world.now))
         + Len(UmaChampionsMeetings(world.uma, world.now))
       > Len(events_cache.upcoming_events)

(***************************************************************************)
(* Properties of the helper functions                                      *)
(***************************************************************************)
\* 1.2 <= r <= 2.0 for the fraction r
RateInRange(r) == 5 * r.n >= 6 * r.d /\ r.n <= 2 * r.d

\* C13: the acceleration rate is within [1.2, 2.0] whenever at least 2
\* confirmed pairs are supplied, for any base rate, and is the base rate
\* itself when fewer than 2 are supplied.
C13_RateClamped ==
    (ret.done /\ call.fn = "rate") =>
        IF Len(call.pairs) >= 2 THEN RateInRange(ret.rate)
        ELSE ret.rate = call.rate

\* C14: for a fixed table of at least 2 confirmed pairs, fixed launch
\* anchors and a fixed base rate, the estimated global instant does not
\* decrease when the regional instant grows.
C14_EstimateMonotone ==
    (ret.done /\ call.fn = "date" /\ Len(call.pairs) >= 2 /\ call.jp_a <= call.jp_b)
        => ret.est_a <= ret.est_b

\* The window taken on the regional axis: the pairs within the 30 days up
\* to the last regional instant, or the last 4 in regional order when
\* fewer than 2 fall in it
RegionalWindow(confirmed_pairs) ==
    LET pairs  == SortPairs(confirmed_pairs, "jp")
        last   == pairs[Len(pairs)].jp
        cutoff == last - 30 * 24
        recent == SelectSeq(pairs, LAMBDA p : cutoff <= p.jp /\ p.jp <= last)
    IN IF Len(recent) >= 2 THEN recent
       ELSE SubSeq(pairs, IF Len(pairs) > 4 THEN Len(pairs) - 3 ELSE 1, Len(pairs))

\* C21: for a table of at least 2 confirmed pairs, the pairs that the
\* acceleration rate is computed over are the pairs of the window taken on
\* the regional axis (the pairs whose regional instant lies within the 30
\* days up to the last regional instant, or the last 4 pairs in regional
\* order when fewer than 2 fall in that window).
C21_WindowOnRegionalAxis ==
    (ret.done /\ call.fn = "rate" /\ Len(call.pairs) >= 2)
        => Range(ret.window) = Range(RegionalWindow(call.pairs))

\* The hour of the day of an instant
HourOfDay(ts) == ts % 24

\* C23: the instant returned by the JP-to-Global estimate is at 22:00 of its
\* day, whatever the table of confirmed pairs (none, or pairs around,
\* before or after the regional instant) and whatever the regional instant.
C23_EstimateAtHour22 ==
    (ret.done /\ call.fn = "date")
        => HourOfDay(ret.est_a) = 22 /\ HourOfDay(ret.est_b) = 22

\* An estimate was interpolated between two pairs at a point that is not a
\* whole number of days after the earlier one, and another was extrapolated
\* from the same table for a regional instant before its first pair.
C23_Witness ==
    /\ ret.done /\ call.fn = "date" /\ Len(call.pairs) = 2
    /\ LET pairs == SortPairs(call.pairs, "jp") IN
       /\ pairs[1].jp < call.jp_a /\ call.jp_a < pairs[2].jp
       /\ ((pairs[2].global - pairs[1].global) * (call.jp_a - pairs[1].jp))
             % (24 * (pairs[2].jp - pairs[1].jp)) # 0
       /\ call.jp_b < pairs[1].jp
    /\ HourOfDay(ret.est_a) = 22 /\ HourOfDay(ret.est_b) = 22

(***************************************************************************)
(* Properties of the upcoming sources                                      *)
(***************************************************************************)
\* The published items of the range-table source
Game8Items == {it \in Published("upcoming_banners") : SourceOf(it) = "game8"}

UndatedRow(r) ==
    /\ ~Game8Skipped(r)
    /\ ~ParseGame8DateRange(r.avail).raised
    /\ ParseGame8DateRange(r.avail).start = 0
    /\ (r.avail.marker \/ r.avail.yeartok)

\* The row has a resolved start instant
DatedRow(r) == ~Game8Skipped(r) /\ ParseGame8DateRange(r.avail).start # 0

\* The positions of the row's record in the output of the source
PositionsOf(r) ==
    {i \in 1..Len(events_cache.upcoming_banners) :
        /\ SourceOf(events_cache.upcoming_banners[i]) = "game8"
        /\ events_cache.upcoming_banners[i].title = Strip(r.title)}

\* C22: after a pass in which no date raised, every undated row of the
\* range tables that holds a marker or a year token has a record of its
\* title in the output of the source, and the record of every such row
\* comes after the record of every row that has a resolved start instant.
C22_UndatedKeptAfterDated ==
    \A t \in Threads :
        (Returned(t) /\ ~failed[t]) =>
            \A i \in 1..Len(world.game8.rows) :
                LET u == world.game8.rows[i] IN
                UndatedRow(u) =>
                    /\ \E it \in Game8Items : TitleKey(it.title) = TitleKey(u.title)
                    /\ \A j \in 1..Len(world.game8.rows) :
                          LET d == world.game8.rows[j] IN
                          (DatedRow(d) /\ TitleKey(d.title) # TitleKey(u.title)) =>
                              \A pu \in PositionsOf(u), pd \in PositionsOf(d) : pd < pu

\* C16: every published item of the regional-estimate source has an
\* estimated global start strictly after now; an estimate that is less than
\* or equal to now is discarded.
C16_EstimatesStrictlyFuture ==
    \A t \in Threads :
        (Returned(t) /\ ~failed[t]) =>
            \A it \in Contribution("uma") : it.sort > world.now

\* No record of the timeline has a confirmed global date
NoConfirmedPairs(u) ==
    /\ \A i \in 1..Len(u.story) : u.story[i].global = 0
    /\ \A i \in 1..Len(u.cm_confirmed) : u.cm_confirmed[i] = 0

\* C17: when a model input is absent (no confirmed pair, or a launch anchor
\* or the base catch-up rate missing), the regional-estimate source
\* contributes no item to the refresh.
C17_NoEstimateWithoutInputs ==
    \A t \in Threads :
        ( /\ Returned(t) /\ ~failed[t]
          /\ \/ NoConfirmedPairs(world.uma)
             \/ world.uma.jp_launch = 0 \/ world.uma.global_launch = 0
             \/ world.uma.catchup_rate.n = 0 )
        => Contribution("uma") = {}

(***************************************************************************)
(* Progress of the refresh cache                                           *)
(***************************************************************************)
\* Some call is between setting the flag and clearing it
Running == \E t \in Threads : pc[t] \in PipelineStages \cup {"finally", "clear"}

\* A call returns at line 1011 only while another call is running
C18_RejectedOnlyWhileRunning ==
    \A t \in Threads : (pc[t] = "check" /\ pc'[t] = "idle") => Running

\* C18: every refresh that sets the in-progress flag eventually clears it,
\* also when the pipeline raises, and a call is turned away only while a run
\* is in progress.
C18_FlagEventuallyCleared ==
    /\ refresh_in_progress ~> ~refresh_in_progress
    /\ [][C18_RejectedOnlyWhileRunning]_vars

\* A run that raised has ended: nothing was published and the flag is clear.
C18_Witness ==
    /\ started >= 1
    /\ events_cache.last_updated = 0
    /\ ~refresh_in_progress
    /\ \A t \in Threads : pc[t] = "idle"

\* C19: every (start, end) the range parser returns with both ends
\* resolved satisfies start <= end, also for a range written with a single
\* trailing year whose left month is later in the calendar than its right
\* month.
C19_StartNotAfterEnd ==
    ( /\ ret.done /\ call.fn = "parse" /\ ~ret.parsed.raised
      /\ ret.parsed.start # 0 /\ ret.parsed.end # 0 )
    => ret.parsed.start <= ret.parsed.end

(***************************************************************************)
(* Properties of the merge                                                 *)
(***************************************************************************)
\* The upcoming events the story-event list yields, as published
PrimaryUpcoming == SelectSeq(events_cache.upcoming_events, LAMBDA it : it.src = "story")

\* The estimates whose title collides with none of the given items
RECURSIVE NonColliding(_, _)
NonColliding(items, keys) ==
    IF items = <<>> THEN <<>>
    ELSE IF TitleKey(Head(items).title) \in keys THEN NonColliding(Tail(items), keys)
    ELSE <<Head(items)>> \o NonColliding(Tail(items), keys)

\* The number of story pages that are upcoming
PrimaryCount(w) ==
    IF ~w.story.ok THEN 0
    ELSE Cardinality({i \in 1..Len(w.story.rows) :
            LET p == w.story.rows[i] IN p.ok /\ p.start # 0 /\ p.start > w.now})

\* C20: the estimates are appended exactly to fill the shortfall of the
\* primary list: when the story-event list yields k upcoming events with
\* 0 < k < limit, the published upcoming events are these k followed by the
\* estimates of other titles, up to the limit; when it yields limit events,
\* no estimate appears.
C20_FallbackFillsShortfall ==
    \A t \in Threads :
        (Returned(t) /\ ~failed[t] /\ PrimaryCount(world) > 0) =>
            LET k    == PrimaryCount(world)
                keys == {TitleKey(PrimaryUpcoming[i].title) : i \in 1..Len(PrimaryUpcoming)}
                fill == NonColliding(FallbackEvents(world), keys)
            IN IF k >= Limit
               THEN \A it \in Published("upcoming_events") : it.src # "uma"
               ELSE events_cache.upcoming_events = Take(PrimaryUpcoming \o fill, Limit)

=============================================================================
